---- MODULE Spec2Model ----
(***************************************************************************)
(* Model of OIDCAuthenticationStrategy (src/src/index.ts).                 *)
(*                                                                         *)
(* One strategy instance with its `configuration` field, a set of          *)
(* authenticate() invocations and a set of init() invocations.  Every      *)
(* async function is cut at its `await`s: an action is the synchronous     *)
(* run of the code between two awaits (JavaScript runs it to completion),  *)
(* so invocations interleave exactly at the awaits.  The provider and the  *)
(* host's verify function are the environment: their answers are drawn     *)
(* from small sets.  A decodable response body is a JSON object.           *)
(***************************************************************************)
EXTENDS Integers, Sequences, FiniteSets, TLC

VARIABLES
    configuration,  \* this.configuration (line 88)
    calls,          \* the authenticate() invocations, by slot
    inits,          \* the init() invocations, by slot
    reads,          \* the host's reads of the `action` getter, by slot
    now             \* the clock read by `new Date()` (line 211), in seconds

vars == <<configuration, calls, inits, reads, now>>

----------------------------------------------------------------------------
(* Values *)

\* JavaScript `undefined` where a string is expected; `${undefined}` is
\* the text "undefined".
UNDEF == "undefined"

\* An optional value: <<>> is none, <<v>> is v.
None == <<>>
Some(v) == <<v>>

\* `!x` for a string-or-undefined x.
Falsy(x) == x = UNDEF \/ x = ""

\* readonly name = '-oidc'
StrategyName == "-oidc"

\* The four errors the class throws itself.
ConfigurationMissing == "No OpenID configuration for strategy " \o StrategyName \o "."
UnsupportedPayload == "Not supported yet."
TokenExchangeFailed == "Token endpoint responded with a non-OK status code."
UserInfoFetchFailed == "UserInfo endpoint responded with a non-OK status code."

\* What fetch() and Response.json() reject with; init() lets them through.
FetchRejected == "TypeError: fetch failed"
JsonRejected == "SyntaxError: Unexpected token in JSON"

\* A text spelled out character by character, and the string it spells.
RECURSIVE Text(_)
Text(chars) == IF chars = <<>> THEN "" ELSE chars[1] \o Text(Tail(chars))

\* The config object handed to the constructor; the two values that end up
\* in a query string are spelled out.
ClientIdChars == <<"c", "i", "d">>
ClientId == Text(ClientIdChars)
ClientSecret == "sec"
ClientRedirectUrlChars ==
    <<"h", "t", "t", "p", "s", ":", "/", "/", "a", "p", "p", "/", "c", "b">>
ClientRedirectUrl == Text(ClientRedirectUrlChars)
ClientScopes ==
    << <<"o", "p", "e", "n", "i", "d">>, <<"e", "m", "a", "i", "l">> >>
ServerUrl == "https://idp/"

\* A join that also puts the separator after the last element.
RECURSIVE Join_Trailing(_, _)
Join_Trailing(s, sep) ==
    IF s = <<>> THEN <<>> ELSE s[1] \o sep \o Join_Trailing(Tail(s), sep)

\* Array.prototype.join
RECURSIVE Join(_, _)
Join(s, sep) ==
    IF s = <<>> THEN <<>>
    ELSE IF Len(s) = 1 THEN s[1]
    ELSE s[1] \o sep \o Join(Tail(s), sep)

\* private get scope()
scopeChars == Join(ClientScopes, <<" ">>)
scope == Text(scopeChars)

\* URLSearchParams serialisation (application/x-www-form-urlencoded) of one
\* character: a space becomes "+", the reserved characters their percent
\* code, letters, digits and "*-._" stay.
FormEncodeChar(ch) ==
    CASE ch = " " -> "+"
      [] ch = ":" -> "%3A"
      [] ch = "/" -> "%2F"
      [] ch = "?" -> "%3F"
      [] ch = "&" -> "%26"
      [] ch = "=" -> "%3D"
      [] ch = "+" -> "%2B"
      [] ch = "%" -> "%25"
      [] OTHER -> ch

RECURSIVE FormEncode(_)
FormEncode(chars) ==
    IF chars = <<>> THEN ""
    ELSE FormEncodeChar(chars[1]) \o FormEncode(Tail(chars))

\* configuration: OpenIDConfiguration = {}
EmptyConfiguration ==
    [authorization_endpoint |-> UNDEF, token_endpoint |-> UNDEF,
     userinfo_endpoint |-> UNDEF]

FullDocument ==
    [authorization_endpoint |-> "https://idp/auth",
     token_endpoint |-> "https://idp/token",
     userinfo_endpoint |-> "https://idp/userinfo"]

OtherDocument ==
    [authorization_endpoint |-> "https://idp2/auth",
     token_endpoint |-> "https://idp2/token",
     userinfo_endpoint |-> "https://idp2/userinfo"]

\* The JSON objects the discovery URL may answer with: complete documents,
\* documents that omit an endpoint, and an object with none of the three
\* (an error body such as {"error": "..."}).
DiscoveryBodies ==
    { FullDocument, OtherDocument, EmptyConfiguration,
      [FullDocument EXCEPT !.authorization_endpoint = UNDEF],
      [FullDocument EXCEPT !.token_endpoint = UNDEF],
      [FullDocument EXCEPT !.userinfo_endpoint = UNDEF] }

\* HTTP statuses of a response that arrived (fetch resolves for all of them).
Statuses == {200, 500}

\* interface Token: the fields the code reads.  The last one is an error
\* body, an object without any of them.
TokenBodies ==
    { [access_token |-> "AT1", token_type |-> "Bearer", expires_in |-> Some(2)],
      [access_token |-> UNDEF, token_type |-> UNDEF, expires_in |-> None] }

\* interface OIDCUserInfo
UserInfoBodies == { [sub |-> "u1"], [sub |-> "u2"] }

\* What the host's verify function may resolve to, and reject with.
VerifyResults == {"accepted", UNDEF}
VerifyRejected == "verify failed"

\* context.payload: absent, present but falsy, or an object with any of the
\* three keys of OIDCAuthenticationPayload.
NoPayload ==
    [kind |-> "absent", code |-> None, access_token |-> None,
     refresh_token |-> None]

Payloads ==
    { NoPayload, [NoPayload EXCEPT !.kind = "falsy"] }
    \cup [kind : {"object"}, code : {None, Some("abc")},
          access_token : {None, Some("t")},
          refresh_token : {None, Some("xyz")}]

\* A test against null alone, which lets an absent payload through.
NotPayload_NullOnly(p) == p.kind = "falsy"

\* `!context.payload`, `!payload`
NotPayload(p) == p.kind # "object"

\* 'code' in payload, 'refresh_token' in payload
HasCode(p) == p.code # None
HasRefreshToken(p) == p.refresh_token # None

----------------------------------------------------------------------------
(* Invocations *)

Calls == {"a1"}
Inits == {"i1"}
Readers == {"r1", "r2"}

Pending == [kind |-> "pending", of |-> "none", value |-> UNDEF]
Returned(of, v) == [kind |-> "return", of |-> of, value |-> v]
Thrown(of, e) == [kind |-> "throw", of |-> of, value |-> e]

\* An authenticate() invocation that has not been made.  `tokenAt` is the
\* clock at the moment token() resolved.
IdleCall ==
    [pc |-> "idle", payload |-> NoPayload,
     tokenReq |-> None, tokenRes |-> None, token |-> None,
     userinfoReq |-> None, userinfoRes |-> None, userInfo |-> None,
     verifyArgs |-> None, verifyRes |-> None,
     nToken |-> 0, nUserinfo |-> 0, nVerify |-> 0,
     tokenAt |-> None,
     outcome |-> Pending]

IdleInit ==
    [pc |-> "idle", req |-> None, res |-> None, nFetch |-> 0,
     outcome |-> Pending]

\* No read of `action` made: `at` is the configuration a read was made in.
IdleRead == [outcome |-> Pending, at |-> EmptyConfiguration]

Init ==
    /\ configuration = EmptyConfiguration
    /\ calls = [c \in Calls |-> IdleCall]
    /\ inits = [i \in Inits |-> IdleInit]
    /\ reads = [r \in Readers |-> IdleRead]
    /\ now = 0

----------------------------------------------------------------------------
(* private async token(grantType, code) *)

\* new URLSearchParams({...}): the form fields, one of them under a computed
\* key.
TokenParams(grantType, code) ==
    ("client_id" :> ClientId) @@ ("client_secret" :> ClientSecret)
    @@ ("grant_type" :> grantType)
    @@ ((IF grantType = "authorization_code" THEN "code" ELSE "refresh_token")
            :> code)
    @@ ("redirect_uri" :> ClientRedirectUrl) @@ ("scope" :> scope)

\* A token() that sends the userinfo request along with its own.
TokenBegin_WithUserinfo(call, grantType, code) ==
    LET url == configuration.token_endpoint IN
    IF Falsy(url)
    THEN [call EXCEPT !.pc = "done",
                      !.outcome = Thrown("token", ConfigurationMissing)]
    ELSE [call EXCEPT !.pc = "token_fetch",
                      !.tokenReq = Some([url |-> url, method |-> "POST",
                                         body |-> TokenParams(grantType, code)]),
                      !.nToken = @ + 1,
                      !.userinfoReq =
                          Some([url |-> configuration.userinfo_endpoint,
                                authorization |-> UNDEF]),
                      !.nUserinfo = @ + 1]

\* token() up to `await fetch(url, ...)`: the endpoint is read from
\* this.configuration at this moment.
TokenBegin(call, grantType, code) ==
    LET url == configuration.token_endpoint IN
    IF Falsy(url)
    THEN [call EXCEPT !.pc = "done",
                      !.outcome = Thrown("token", ConfigurationMissing)]
    ELSE [call EXCEPT !.pc = "token_fetch",
                      !.tokenReq = Some([url |-> url, method |-> "POST",
                                         body |-> TokenParams(grantType, code)]),
                      !.nToken = @ + 1]

\* A catch block that sends the request a second time before giving up.
TokenCatch_RetriesOnce(call, err) ==
    IF call.nToken < 2
    THEN [call EXCEPT !.pc = "token_fetch", !.tokenRes = None, !.nToken = @ + 1]
    ELSE [call EXCEPT !.pc = "done",
                      !.outcome = Thrown("token", TokenExchangeFailed)]

\* The catch block of token(): whatever was caught, one error is thrown.
TokenCatch(call, err) ==
    [call EXCEPT !.pc = "done",
                 !.outcome = Thrown("token", TokenExchangeFailed)]

\* fetch() resolved: `res`, whatever its status.
TokenFetched(call, status) ==
    [call EXCEPT !.pc = "token_json",
                 !.tokenRes = Some([status |-> status, body |-> None])]

----------------------------------------------------------------------------
(* private async userinfo(token) *)

\* A catch block that rethrows what it caught.
UserinfoCatch_Rethrows(call, err) ==
    [call EXCEPT !.pc = "done", !.outcome = Thrown("userinfo", err)]

\* A catch block of userinfo() that goes back to its fetch.
UserinfoCatch_FetchesAgain(call, err) ==
    [call EXCEPT !.pc = "userinfo_fetch", !.userinfoRes = None]

\* The catch block of userinfo().
UserinfoCatch(call, err) ==
    [call EXCEPT !.pc = "done",
                 !.outcome = Thrown("userinfo", UserInfoFetchFailed)]

\* userinfo() without the check of its endpoint.
UserinfoBegin_Unchecked(call, token) ==
    [call EXCEPT !.pc = "userinfo_fetch",
                 !.userinfoReq =
                     Some([url |-> configuration.userinfo_endpoint,
                           authorization |->
                               token.token_type \o " " \o token.access_token]),
                 !.nUserinfo = @ + 1]

\* userinfo() up to `await fetch(url, ...)`.
UserinfoBegin(call, token) ==
    LET url == configuration.userinfo_endpoint IN
    IF Falsy(url)
    THEN [call EXCEPT !.pc = "done",
                      !.outcome = Thrown("userinfo", ConfigurationMissing)]
    ELSE [call EXCEPT !.pc = "userinfo_fetch",
                      !.userinfoReq =
                          Some([url |-> url,
                                authorization |->
                                    token.token_type \o " " \o token.access_token]),
                      !.nUserinfo = @ + 1]

UserinfoFetched(call, status) ==
    [call EXCEPT !.pc = "userinfo_json",
                 !.userinfoRes = Some([status |-> status, body |-> None])]

----------------------------------------------------------------------------
(* async authenticate(context) *)

\* An expiry made of expires_in alone.
ExpiresAt_WithoutNow(t, token) ==
    IF token.expires_in = None THEN None ELSE Some(token.expires_in[1])

\* expiresAt.setSeconds(expiresAt.getSeconds() + token.expires_in): a Date
\* as seconds, None for an Invalid Date (expires_in undefined gives NaN).
ExpiresAt(t, token) ==
    IF token.expires_in = None THEN None ELSE Some(t + token.expires_in[1])

\* Lines 211-217: the call of this.config.verify.
VerifyBegin(call, token, userInfo) ==
    [call EXCEPT !.pc = "verify",
                 !.verifyArgs = Some([token |-> token, userInfo |-> userInfo,
                                      expiresAt |-> ExpiresAt(now, token)]),
                 !.nVerify = @ + 1]

\* Line 209 resumed: `token` is what token() resolved to, and userinfo() runs
\* to its first await.
TokenResolved(call, body) ==
    UserinfoBegin([call EXCEPT !.tokenRes[1].body = Some(body),
                               !.token = Some(body),
                               !.tokenAt = Some(now)], body)

\* Line 210 resumed.
UserinfoResolved(call, body) ==
    VerifyBegin([call EXCEPT !.userinfoRes[1].body = Some(body),
                             !.userInfo = Some(body)], call.token[1], body)

\* `await this.config.verify(...)` without the `return`.
VerifyResolved_NoReturn(call, r) ==
    [call EXCEPT !.pc = "done", !.verifyRes = Some(Returned("verify", r)),
                 !.outcome = Returned("none", UNDEF)]

\* `return await this.config.verify(...)`
VerifyResolved(call, r) ==
    [call EXCEPT !.pc = "done", !.verifyRes = Some(Returned("verify", r)),
                 !.outcome = Returned("verify", r)]

VerifyThrew(call, e) ==
    [call EXCEPT !.pc = "done", !.verifyRes = Some(Thrown("verify", e)),
                 !.outcome = Thrown("verify", e)]

\* url.searchParams after the four appends of lines 124-127: names and
\* values, in the order appended.
redirectParams ==
    << <<"response_type", <<"c", "o", "d", "e">> >>,
       <<"client_id", ClientIdChars>>,
       <<"scope", scopeChars>>,
       <<"redirect_uri", ClientRedirectUrlChars>> >>

\* The query string of url.href: name=value pairs joined by "&", the values
\* form-encoded (the four names need no encoding).
RECURSIVE Query(_)
Query(params) ==
    IF params = <<>> THEN ""
    ELSE params[1][1] \o "=" \o FormEncode(params[1][2])
            \o (IF Len(params) = 1 THEN "" ELSE "&" \o Query(Tail(params)))

\* get redirectUrl(): url.href, or undefined.  The authorization endpoints
\* of the model are absolute URLs with a path and no query or fragment of
\* their own, which new URL() leaves as they are.
redirectUrl ==
    LET authorizeUrl == configuration.authorization_endpoint IN
    IF Falsy(authorizeUrl) THEN UNDEF
    ELSE authorizeUrl \o "?" \o Query(redirectParams)

\* A getter that hands out whatever redirectUrl gave.
action_Unchecked == Returned("redirect", redirectUrl)

\* get action(): the action returned, or the error thrown.
action ==
    LET url == redirectUrl IN
    IF Falsy(url)
    THEN Thrown("action", ConfigurationMissing)
    ELSE Returned("redirect", redirectUrl)

\* The two keys tested in the other order.
GrantType_RefreshFirst(p) ==
    IF HasRefreshToken(p) THEN "refresh_token" ELSE "authorization_code"

\* Lines 203-208.
GrantType(p) == IF HasCode(p) THEN "authorization_code" ELSE "refresh_token"
GrantValue(p) ==
    IF HasCode(p) THEN p.code[1]
    ELSE IF HasRefreshToken(p) THEN p.refresh_token[1] ELSE UNDEF

\* A test that lets a bare access token through.
Unsupported_AccessTokenPasses(p) ==
    ~HasCode(p) /\ ~HasRefreshToken(p) /\ p.access_token = None

\* Line 199.
Unsupported(p) == ~HasCode(p) /\ ~HasRefreshToken(p)

\* authenticate() from its entry to its first await (or its end).
AuthenticateBegin(call, p) ==
    LET entered == [call EXCEPT !.payload = p] IN
    IF NotPayload(p)
    THEN [entered EXCEPT !.pc = "done", !.outcome = Returned("none", UNDEF)]
    ELSE IF NotPayload(p)
    THEN [entered EXCEPT !.pc = "done", !.outcome = action]
    ELSE IF Unsupported(p)
    THEN [entered EXCEPT !.pc = "done",
                         !.outcome = Thrown("authenticate", UnsupportedPayload)]
    ELSE TokenBegin(entered, GrantType(p), GrantValue(p))

----------------------------------------------------------------------------
(* Actions of an authenticate() invocation *)

Authenticate(c, p) ==
    /\ calls[c].pc = "idle"
    /\ calls' = [calls EXCEPT ![c] = AuthenticateBegin(calls[c], p)]
    /\ UNCHANGED <<configuration, inits, reads, now>>

\* `await fetch(url, ...)` of token() rejects: no response arrived.
TokenFetchRejects(c) ==
    /\ calls[c].pc = "token_fetch"
    /\ calls' = [calls EXCEPT ![c] = TokenCatch(calls[c], FetchRejected)]
    /\ UNCHANGED <<configuration, inits, reads, now>>

TokenFetchResolves(c, status) ==
    /\ calls[c].pc = "token_fetch"
    /\ calls' = [calls EXCEPT ![c] = TokenFetched(calls[c], status)]
    /\ UNCHANGED <<configuration, inits, reads, now>>

\* A failed token exchange that also drops the cached configuration.
TokenJsonRejects_DropsConfiguration(c) ==
    /\ calls[c].pc = "token_json"
    /\ calls' = [calls EXCEPT ![c] = TokenCatch(calls[c], JsonRejected)]
    /\ configuration' = EmptyConfiguration
    /\ UNCHANGED <<inits, reads, now>>

\* `await res.json()` of token() rejects: the body is not JSON.
TokenJsonRejects(c) ==
    /\ calls[c].pc = "token_json"
    /\ calls' = [calls EXCEPT ![c] = TokenCatch(calls[c], JsonRejected)]
    /\ UNCHANGED <<configuration, inits, reads, now>>

TokenJsonResolves(c, body) ==
    /\ calls[c].pc = "token_json"
    /\ calls' = [calls EXCEPT ![c] = TokenResolved(calls[c], body)]
    /\ UNCHANGED <<configuration, inits, reads, now>>

UserinfoFetchRejects(c) ==
    /\ calls[c].pc = "userinfo_fetch"
    /\ calls' = [calls EXCEPT ![c] = UserinfoCatch(calls[c], FetchRejected)]
    /\ UNCHANGED <<configuration, inits, reads, now>>

UserinfoFetchResolves(c, status) ==
    /\ calls[c].pc = "userinfo_fetch"
    /\ calls' = [calls EXCEPT ![c] = UserinfoFetched(calls[c], status)]
    /\ UNCHANGED <<configuration, inits, reads, now>>

UserinfoJsonRejects(c) ==
    /\ calls[c].pc = "userinfo_json"
    /\ calls' = [calls EXCEPT ![c] = UserinfoCatch(calls[c], JsonRejected)]
    /\ UNCHANGED <<configuration, inits, reads, now>>

UserinfoJsonResolves(c, body) ==
    /\ calls[c].pc = "userinfo_json"
    /\ calls' = [calls EXCEPT ![c] = UserinfoResolved(calls[c], body)]
    /\ UNCHANGED <<configuration, inits, reads, now>>

VerifyResolves(c, r) ==
    /\ calls[c].pc = "verify"
    /\ calls' = [calls EXCEPT ![c] = VerifyResolved(calls[c], r)]
    /\ UNCHANGED <<configuration, inits, reads, now>>

VerifyRejects(c) ==
    /\ calls[c].pc = "verify"
    /\ calls' = [calls EXCEPT ![c] = VerifyThrew(calls[c], VerifyRejected)]
    /\ UNCHANGED <<configuration, inits, reads, now>>

\* The host has the outcome; the invocation is over and its locals are gone.
AuthenticateEnds(c) ==
    /\ calls[c].pc = "done"
    /\ calls' = [calls EXCEPT ![c] = IdleCall]
    /\ UNCHANGED <<configuration, inits, reads, now>>

----------------------------------------------------------------------------
(* The host reads strategy.action *)

ReadAction(r) ==
    /\ reads[r].outcome = Pending
    /\ reads' = [reads EXCEPT ![r] = [outcome |-> action, at |-> configuration]]
    /\ UNCHANGED <<configuration, calls, inits, now>>

\* The host is done with what it read.
ReadEnds(r) ==
    /\ reads[r].outcome # Pending
    /\ reads' = [reads EXCEPT ![r] = IdleRead]
    /\ UNCHANGED <<configuration, calls, inits, now>>

----------------------------------------------------------------------------
(* private async init() *)

\* new URL('.well-known/openid-configuration', this.config.serverUrl)
DiscoveryUrl == ServerUrl \o ".well-known/openid-configuration"

\* init() up to `await fetch(url)`: this.configuration is not looked at.
InitBegin(in) ==
    [in EXCEPT !.pc = "fetch", !.req = Some([url |-> DiscoveryUrl]),
               !.nFetch = @ + 1]

\* `const res = await fetch(url)`, whatever the status.
InitFetched(in, status) ==
    [in EXCEPT !.pc = "json", !.res = Some([status |-> status])]

\* A rejected await is not caught: init() rejects with it.
InitRejected(in, err) ==
    [in EXCEPT !.pc = "done", !.outcome = Thrown("init", err)]

\* An init() that empties the cache when the response is not a 200.
InitStored_EmptyUnlessOk(in, body) ==
    IF in.res[1].status = 200 THEN body ELSE EmptyConfiguration

\* `this.configuration = await res.json()`: the value assigned.
InitStored(in, body) == body

InitStart(i) ==
    /\ inits[i].pc = "idle"
    /\ inits' = [inits EXCEPT ![i] = InitBegin(inits[i])]
    /\ UNCHANGED <<configuration, calls, reads, now>>

InitFetchRejects(i) ==
    /\ inits[i].pc = "fetch"
    /\ inits' = [inits EXCEPT ![i] = InitRejected(inits[i], FetchRejected)]
    /\ UNCHANGED <<configuration, calls, reads, now>>

InitFetchResolves(i, status) ==
    /\ inits[i].pc = "fetch"
    /\ inits' = [inits EXCEPT ![i] = InitFetched(inits[i], status)]
    /\ UNCHANGED <<configuration, calls, reads, now>>

InitJsonRejects(i) ==
    /\ inits[i].pc = "json"
    /\ inits' = [inits EXCEPT ![i] = InitRejected(inits[i], JsonRejected)]
    /\ UNCHANGED <<configuration, calls, reads, now>>

InitJsonResolves(i, body) ==
    /\ inits[i].pc = "json"
    /\ configuration' = InitStored(inits[i], body)
    /\ inits' = [inits EXCEPT ![i] =
                    [@ EXCEPT !.pc = "done", !.outcome = Returned("init", UNDEF)]]
    /\ UNCHANGED <<calls, reads, now>>

\* The caller of init() has its result.
InitEnds(i) ==
    /\ inits[i].pc = "done"
    /\ inits' = [inits EXCEPT ![i] = IdleInit]
    /\ UNCHANGED <<configuration, calls, reads, now>>

----------------------------------------------------------------------------
(* Time *)

MaxClock == 2

Tick ==
    /\ now < MaxClock
    /\ now' = now + 1
    /\ UNCHANGED <<configuration, calls, inits, reads>>

----------------------------------------------------------------------------
(* Specification: one authenticate() at a time, against init() invocations
   that may run at any of its awaits. *)

Next ==
    \/ \E c \in Calls, p \in Payloads : Authenticate(c, p)
    \/ \E c \in Calls : TokenFetchRejects(c)
    \/ \E c \in Calls, st \in Statuses : TokenFetchResolves(c, st)
    \/ \E c \in Calls : TokenJsonRejects(c)
    \/ \E c \in Calls, body \in TokenBodies : TokenJsonResolves(c, body)
    \/ \E c \in Calls : UserinfoFetchRejects(c)
    \/ \E c \in Calls, st \in Statuses : UserinfoFetchResolves(c, st)
    \/ \E c \in Calls : UserinfoJsonRejects(c)
    \/ \E c \in Calls, body \in UserInfoBodies : UserinfoJsonResolves(c, body)
    \/ \E c \in Calls, r \in VerifyResults : VerifyResolves(c, r)
    \/ \E c \in Calls : VerifyRejects(c)
    \/ \E c \in Calls : AuthenticateEnds(c)
    \/ \E i \in Inits : InitStart(i)
    \/ \E i \in Inits : InitFetchRejects(i)
    \/ \E i \in Inits, st \in Statuses : InitFetchResolves(i, st)
    \/ \E i \in Inits : InitJsonRejects(i)
    \/ \E i \in Inits, body \in DiscoveryBodies : InitJsonResolves(i, body)
    \/ \E i \in Inits : InitEnds(i)
    \/ Tick

Spec == Init /\ [][Next]_vars

----------------------------------------------------------------------------
(* Properties *)

\* The step of invocation c from its entry to its first await.
Enters(c) == calls[c].pc = "idle" /\ calls'[c].pc # "idle"

\* The payload names a grant.
HasGrant(p) == p.kind = "object" /\ (HasCode(p) \/ HasRefreshToken(p))

\* The provider's answer to a request of invocation k was decoded.
TokenSucceeded(k) == k.tokenRes # None /\ k.tokenRes[1].body # None
UserinfoSucceeded(k) == k.userinfoRes # None /\ k.userinfoRes[1].body # None

\* A request of invocation k was sent and has settled without a decoded
\* answer: no response at all, or a body that is not JSON.
TokenFailed(k) ==
    /\ k.tokenReq # None
    /\ k.pc \notin {"token_fetch", "token_json"}
    /\ ~TokenSucceeded(k)
UserinfoFailed(k) ==
    /\ k.userinfoReq # None
    /\ k.pc \notin {"userinfo_fetch", "userinfo_json"}
    /\ ~UserinfoSucceeded(k)

NoRequestSent(k) ==
    /\ k.nToken = 0 /\ k.tokenReq = None
    /\ k.nUserinfo = 0 /\ k.userinfoReq = None

\* C1: when the payload carries a code and both the token request and the
\* userinfo request were answered, verify has been invoked exactly once, with
\* the token record the token endpoint answered and the claims the userinfo
\* endpoint answered, and once the call is over its outcome is what verify
\* settled with.
C1_VerifyOnceWithProviderAnswers ==
    \A c \in Calls :
        LET k == calls[c] IN
        (HasCode(k.payload) /\ TokenSucceeded(k) /\ UserinfoSucceeded(k)) =>
            /\ k.nVerify = 1
            /\ k.verifyArgs # None
            /\ k.verifyArgs[1].token = k.tokenRes[1].body[1]
            /\ k.verifyArgs[1].userInfo = k.userinfoRes[1].body[1]
            /\ k.pc \in {"verify", "done"}
            /\ (k.pc = "done" => k.verifyRes # None /\ k.outcome = k.verifyRes[1])

C1_Witness ==
    \E c \in Calls :
        LET k == calls[c] IN
        /\ k.pc = "done" /\ HasCode(k.payload)
        /\ TokenSucceeded(k) /\ UserinfoSucceeded(k)
        /\ k.verifyArgs[1].token.access_token = "AT1"
        /\ k.verifyArgs[1].userInfo.sub = "u1"
        /\ k.outcome = Returned("verify", "accepted")

\* C2: an authenticate call with a code or a refresh token that is entered
\* while the cached configuration is empty performs the discovery fetch
\* before the token exchange, so it does not end with ConfigurationMissing
\* at its entry.
C2_DiscoveryBeforeExchange ==
    [][\A c \in Calls :
        (Enters(c) /\ HasGrant(calls'[c].payload)
            /\ configuration = EmptyConfiguration) =>
                calls'[c].outcome # Thrown("token", ConfigurationMissing)]_vars

\* C3: entered with no payload, authenticate returns undefined at once, has
\* sent no request and invoked no verify, and neither an init() invocation
\* nor the configuration has changed, whatever the configuration is.
C3_NoPayloadDeclines ==
    [][\A c \in Calls :
        (Enters(c) /\ calls'[c].payload.kind = "absent") =>
            /\ calls'[c].pc = "done"
            /\ calls'[c].outcome = Returned("none", UNDEF)
            /\ NoRequestSent(calls'[c])
            /\ calls'[c].nVerify = 0 /\ calls'[c].verifyArgs = None
            /\ inits' = inits
            /\ configuration' = configuration]_vars

C3_Witness ==
    \E c \in Calls :
        /\ calls[c].pc = "done" /\ calls[c].payload.kind = "absent"
        /\ calls[c].outcome = Returned("none", UNDEF)
        /\ configuration = FullDocument

\* C4: entered with a payload object that has neither a code nor a refresh
\* token, authenticate throws the unsupported-payload error at once, has sent
\* no request and invoked no verify, and the configuration is unchanged.
C4_UnsupportedPayloadFails ==
    [][\A c \in Calls :
        (Enters(c) /\ calls'[c].payload.kind = "object"
            /\ calls'[c].payload.code = None
            /\ calls'[c].payload.refresh_token = None) =>
                /\ calls'[c].pc = "done"
                /\ calls'[c].outcome = Thrown("authenticate", UnsupportedPayload)
                /\ NoRequestSent(calls'[c])
                /\ calls'[c].nVerify = 0 /\ calls'[c].verifyArgs = None
                /\ inits' = inits
                /\ configuration' = configuration]_vars

C4_Witness ==
    \E c \in Calls :
        /\ calls[c].pc = "done"
        /\ calls[c].payload = [NoPayload EXCEPT !.kind = "object",
                                                !.access_token = Some("t")]
        /\ calls[c].outcome = Thrown("authenticate", UnsupportedPayload)
        /\ configuration = FullDocument

\* C5: a token request sent for a payload with a code has grant type
\* authorization_code and the code in the field `code`, and no field
\* `refresh_token`, also when the payload has a refresh token as well; one
\* sent for a payload with a refresh token and no code has grant type
\* refresh_token and the refresh token in the field `refresh_token`, and no
\* field `code`.  A call with either kind of payload sends the request unless
\* the token endpoint is unknown.
C5_GrantTypeSelection ==
    \A c \in Calls :
        LET k == calls[c]
            p == k.payload
        IN  /\ k.tokenReq # None =>
                LET b == k.tokenReq[1].body IN
                IF p.code # None
                THEN /\ b["grant_type"] = "authorization_code"
                     /\ "code" \in DOMAIN b /\ b["code"] = p.code[1]
                     /\ "refresh_token" \notin DOMAIN b
                ELSE /\ p.refresh_token # None
                     /\ b["grant_type"] = "refresh_token"
                     /\ "refresh_token" \in DOMAIN b
                     /\ b["refresh_token"] = p.refresh_token[1]
                     /\ "code" \notin DOMAIN b
            /\ (k.pc # "idle" /\ HasGrant(p)) =>
                \/ k.tokenReq # None
                \/ k.outcome = Thrown("token", ConfigurationMissing)

C5_Witness ==
    \E c \in Calls :
        LET k == calls[c] IN
        /\ k.payload.code = Some("abc") /\ k.payload.refresh_token = Some("xyz")
        /\ k.tokenReq # None
        /\ k.tokenReq[1].body["grant_type"] = "authorization_code"
        /\ k.tokenReq[1].body["code"] = "abc"

\* C6: a step in which an init() invocation fails (its fetch is rejected, the
\* response has a non-success status, or the body is not JSON) or in which an
\* authenticate call ends with an error leaves the configuration as it was.
C6_FailureKeepsConfiguration ==
    [][/\ \A i \in Inits :
            (/\ inits[i].pc \in {"fetch", "json"}
             /\ inits'[i].pc = "done"
             /\ \/ inits'[i].outcome.kind = "throw"
                \/ inits'[i].res # None /\ inits'[i].res[1].status # 200) =>
                configuration' = configuration
       /\ \A c \in Calls :
            (calls[c].pc # "done" /\ calls'[c].pc = "done"
                /\ calls'[c].outcome.kind = "throw") =>
                configuration' = configuration]_vars

\* C7: once the configuration holds a discovered document, running the
\* discovery step again sends no request and leaves the configuration as it
\* is.
C7_DiscoveryIdempotent ==
    [][\A i \in Inits :
        (configuration # EmptyConfiguration
            /\ inits[i].pc = "idle" /\ inits'[i].pc # "idle") =>
                /\ inits'[i].nFetch = 0 /\ inits'[i].req = None
                /\ configuration' = configuration]_vars

\* C8: a call sends at most one token request and at most one userinfo
\* request; when its token request failed, no userinfo request was sent,
\* verify was not invoked and the call has ended with an error; when its
\* userinfo request failed, verify was not invoked and the call has ended
\* with an error.
C8_NoRetryNoRecovery ==
    \A c \in Calls :
        LET k == calls[c] IN
        /\ k.nToken <= 1 /\ k.nUserinfo <= 1
        /\ TokenFailed(k) =>
            /\ k.nUserinfo = 0 /\ k.userinfoReq = None
            /\ k.nVerify = 0 /\ k.verifyArgs = None
            /\ k.pc = "done" /\ k.outcome.kind = "throw"
        /\ UserinfoFailed(k) =>
            /\ k.nVerify = 0 /\ k.verifyArgs = None
            /\ k.pc = "done" /\ k.outcome.kind = "throw"

C8_Witness ==
    \E c \in Calls :
        LET k == calls[c] IN
        /\ UserinfoFailed(k) /\ TokenSucceeded(k)
        /\ k.nToken = 1 /\ k.nUserinfo = 1 /\ k.nVerify = 0
        /\ k.pc = "done" /\ k.outcome.kind = "throw"

\* C9: a token request that failed, by a rejected fetch or a body that is not
\* JSON alike, ends the call with the one token error, and a userinfo request
\* that failed with the one userinfo error; the two errors and the
\* configuration-missing error are three different errors; and a call ends
\* with the configuration-missing error only in a step that found the
\* endpoint it needed unknown.
C9_ErrorCollapsing ==
    [][\A c \in Calls :
        LET k == calls'[c] IN
        /\ TokenFailed(k) => k.outcome = Thrown("token", TokenExchangeFailed)
        /\ UserinfoFailed(k) => k.outcome = Thrown("userinfo", UserInfoFetchFailed)
        /\ TokenExchangeFailed # UserInfoFetchFailed
        /\ TokenExchangeFailed # ConfigurationMissing
        /\ UserInfoFetchFailed # ConfigurationMissing
        /\ (calls[c].pc # "done" /\ k.pc = "done"
                /\ k.outcome.value = ConfigurationMissing) =>
            \/ k.outcome.of = "token" /\ Falsy(configuration.token_endpoint)
            \/ k.outcome.of = "userinfo" /\ Falsy(configuration.userinfo_endpoint)
            \/ k.outcome.of = "action"
                    /\ Falsy(configuration.authorization_endpoint)]_vars

C9_Witness ==
    /\ \E c \in Calls :
        LET k == calls[c] IN
        /\ UserinfoFailed(k) /\ k.userinfoRes # None
        /\ k.outcome = Thrown("userinfo", UserInfoFetchFailed)
    /\ configuration = FullDocument

\* C10: a call that reaches the token exchange while the token endpoint is
\* unknown ends with the configuration-missing error and has sent no request;
\* a call whose token request was answered while the userinfo endpoint is
\* unknown ends with the configuration-missing error, having sent its token
\* request, and sends no userinfo request and does not invoke verify.
C10_MissingEndpoint ==
    [][\A c \in Calls :
        LET k == calls'[c] IN
        /\ (Enters(c) /\ HasGrant(k.payload)
                /\ Falsy(configuration.token_endpoint)) =>
            /\ k.pc = "done"
            /\ k.outcome = Thrown("token", ConfigurationMissing)
            /\ NoRequestSent(k)
        /\ (calls[c].pc = "token_json" /\ TokenSucceeded(k)
                /\ Falsy(configuration.userinfo_endpoint)) =>
            /\ k.pc = "done"
            /\ k.outcome = Thrown("userinfo", ConfigurationMissing)
            /\ k.nToken = 1 /\ k.tokenReq # None
            /\ k.nUserinfo = 0 /\ k.userinfoReq = None
            /\ k.nVerify = 0 /\ k.verifyArgs = None]_vars

C10_Witness ==
    \E c \in Calls :
        LET k == calls[c] IN
        /\ k.pc = "done" /\ TokenSucceeded(k)
        /\ k.outcome = Thrown("userinfo", ConfigurationMissing)
        /\ k.userinfoReq = None /\ k.verifyArgs = None

----------------------------------------------------------------------------
(* Specification of the redirect builder: the host reads `action` while
   init() invocations come and go. *)

NextRedirect ==
    \/ \E r \in Readers : ReadAction(r)
    \/ \E r \in Readers : ReadEnds(r)
    \/ \E i \in Inits : InitStart(i)
    \/ \E i \in Inits : InitFetchRejects(i)
    \/ \E i \in Inits, st \in Statuses : InitFetchResolves(i, st)
    \/ \E i \in Inits : InitJsonRejects(i)
    \/ \E i \in Inits, body \in DiscoveryBodies : InitJsonResolves(i, body)
    \/ \E i \in Inits : InitEnds(i)

SpecRedirect == Init /\ [][NextRedirect]_vars

\* C11: entered with a payload that is present but falsy, authenticate ends
\* with what the `action` getter gives in the current configuration (the
\* redirect outcome when the authorization endpoint is known), which is not
\* the undefined outcome of an absent payload.
C11_FalsyPayloadRedirects ==
    [][\A c \in Calls :
        (Enters(c) /\ calls'[c].payload.kind = "falsy") =>
            /\ calls'[c].outcome = action
            /\ calls'[c].outcome # Returned("none", UNDEF)]_vars

\* C12: a read of `action` while the authorization endpoint is unknown
\* throws the configuration-missing error, and one while it is known returns
\* a redirect; either way no authenticate call has moved (so no token or
\* userinfo request was sent) and the configuration and the init()
\* invocations are as before.
C12_ActionNeedsAuthorizationEndpoint ==
    [][\A r \in Readers :
        (reads[r].outcome = Pending /\ reads'[r].outcome # Pending) =>
            /\ IF Falsy(configuration.authorization_endpoint)
               THEN reads'[r].outcome = Thrown("action", ConfigurationMissing)
               ELSE /\ reads'[r].outcome.kind = "return"
                    /\ reads'[r].outcome.of = "redirect"
                    /\ ~Falsy(reads'[r].outcome.value)
            /\ calls' = calls
            /\ inits' = inits
            /\ configuration' = configuration]_vars

C12_Witness ==
    /\ reads["r1"].outcome = Thrown("action", ConfigurationMissing)
    /\ reads["r1"].at = [FullDocument EXCEPT !.authorization_endpoint = UNDEF]
    /\ reads["r2"].outcome.kind = "return"
    /\ reads["r2"].at = FullDocument

\* C13: the URL a read of `action` returns is the authorization endpoint of
\* the configuration it was read in, "?", and the four parameters
\* response_type=code, client_id, scope (the scopes joined by one space) and
\* redirect_uri, in this order and form-encoded, and nothing else; two reads
\* made in the same configuration return the same URL.
C13_RedirectUrl ==
    /\ Len(redirectParams) = 4
    /\ [n \in 1..4 |-> redirectParams[n][1]]
            = <<"response_type", "client_id", "scope", "redirect_uri">>
    /\ redirectParams[1][2] = <<"c", "o", "d", "e">>
    /\ redirectParams[2][2] = <<"c", "i", "d">>
    /\ redirectParams[3][2]
            = <<"o", "p", "e", "n", "i", "d", " ", "e", "m", "a", "i", "l">>
    /\ redirectParams[4][2] = ClientRedirectUrlChars
    /\ \A r \in Readers :
        reads[r].outcome.kind = "return" =>
            reads[r].outcome.value =
                reads[r].at.authorization_endpoint
                    \o "?response_type=code&client_id=cid&scope=openid+email"
                    \o "&redirect_uri=https%3A%2F%2Fapp%2Fcb"
    /\ \A r1, r2 \in Readers :
        (reads[r1].outcome # Pending /\ reads[r2].outcome # Pending
            /\ reads[r1].at = reads[r2].at) =>
                reads[r1].outcome = reads[r2].outcome

C13_Witness ==
    /\ reads["r1"].at = OtherDocument /\ reads["r2"].at = OtherDocument
    /\ reads["r1"].outcome.kind = "return"
    /\ reads["r2"].outcome.kind = "return"
    /\ configuration = FullDocument

\* Requests of invocation k that were sent and are not answered yet.
Outstanding(k) ==
    (IF k.tokenReq # None /\ ~TokenSucceeded(k) /\ k.pc # "done" THEN 1 ELSE 0)
    + (IF k.userinfoReq # None /\ ~UserinfoSucceeded(k) /\ k.pc # "done"
       THEN 1 ELSE 0)

\* C15: in a call, a userinfo request has been sent only after the token
\* response was received and decoded, verify has been invoked only after the
\* userinfo response was received and decoded, and at most one request is
\* outstanding at any time.
C15_StrictSequence ==
    \A c \in Calls :
        LET k == calls[c] IN
        /\ k.userinfoReq # None => TokenSucceeded(k)
        /\ k.verifyArgs # None => TokenSucceeded(k) /\ UserinfoSucceeded(k)
        /\ Outstanding(k) <= 1

C15_Witness ==
    \E c \in Calls :
        LET k == calls[c] IN
        /\ k.pc = "userinfo_fetch" /\ TokenSucceeded(k)
        /\ k.userinfoReq # None /\ Outstanding(k) = 1

\* C16: once the token endpoint has answered with a status other than 200
\* and the body was read, the call has ended with the token error, no
\* userinfo request was sent and verify was not invoked; once the userinfo
\* endpoint has answered with such a status and the body was read, the call
\* has ended with the userinfo error and verify was not invoked.
C16_NonOkStatusFails ==
    \A c \in Calls :
        LET k == calls[c] IN
        /\ (k.tokenRes # None /\ k.tokenRes[1].status # 200
                /\ k.pc # "token_json") =>
            /\ k.outcome = Thrown("token", TokenExchangeFailed)
            /\ k.userinfoReq = None
            /\ k.nVerify = 0
        /\ (k.userinfoRes # None /\ k.userinfoRes[1].status # 200
                /\ k.pc # "userinfo_json") =>
            /\ k.outcome = Thrown("userinfo", UserInfoFetchFailed)
            /\ k.nVerify = 0

\* C17: the userinfo request of a call goes to the userinfo endpoint of a
\* discovery document whose token endpoint the call's token request went to.
C17_EndpointsOfOneDocument ==
    \A c \in Calls :
        LET k == calls[c] IN
        k.userinfoReq # None =>
            \E doc \in DiscoveryBodies :
                /\ doc.token_endpoint = k.tokenReq[1].url
                /\ doc.userinfo_endpoint = k.userinfoReq[1].url

\* C20: the expiresAt handed to verify, for a token record that has an
\* expires_in, is the clock at the step in which the userinfo response was
\* decoded plus expires_in, and so it is not earlier than the clock at which
\* the token response was decoded plus expires_in.
C20_ExpiresAt ==
    [][\A c \in Calls :
        (calls[c].pc = "userinfo_json" /\ calls'[c].verifyArgs # None
            /\ calls'[c].verifyArgs[1].token.expires_in # None) =>
            LET a == calls'[c].verifyArgs[1]
                expires_in == a.token.expires_in[1]
            IN  /\ a.expiresAt = Some(now + expires_in)
                /\ a.expiresAt[1] >= calls'[c].tokenAt[1] + expires_in]_vars

C20_Witness ==
    \E c \in Calls :
        LET k == calls[c] IN
        /\ k.verifyArgs # None /\ k.tokenAt = Some(0)
        /\ k.token[1].expires_in = Some(2)
        /\ k.verifyArgs[1].expiresAt = Some(3)

----------------------------------------------------------------------------
(* Specification of concurrent use: two authenticate() invocations, two
   init() invocations and a read of `action`, interleaved at every await,
   against a provider whose discovery document is always the same. *)

ConcurrentCalls == {"a1", "a2"}
ConcurrentInits == {"i1", "i2"}

ConcurrentPayloads ==
    { NoPayload,
      [NoPayload EXCEPT !.kind = "object", !.code = Some("abc")],
      [NoPayload EXCEPT !.kind = "object", !.refresh_token = Some("xyz")] }

\* The one document of the provider.
ProviderDocument == FullDocument

InitConcurrent ==
    /\ configuration = EmptyConfiguration
    /\ calls = [c \in ConcurrentCalls |-> IdleCall]
    /\ inits = [i \in ConcurrentInits |-> IdleInit]
    /\ reads = [r \in Readers |-> IdleRead]
    /\ now = 0

NextConcurrent ==
    \/ \E c \in ConcurrentCalls, p \in ConcurrentPayloads : Authenticate(c, p)
    \/ \E c \in ConcurrentCalls : TokenFetchRejects(c)
    \/ \E c \in ConcurrentCalls : TokenFetchResolves(c, 200)
    \/ \E c \in ConcurrentCalls : TokenJsonRejects(c)
    \/ \E c \in ConcurrentCalls, body \in TokenBodies : TokenJsonResolves(c, body)
    \/ \E c \in ConcurrentCalls : UserinfoFetchRejects(c)
    \/ \E c \in ConcurrentCalls : UserinfoFetchResolves(c, 200)
    \/ \E c \in ConcurrentCalls : UserinfoJsonRejects(c)
    \/ \E c \in ConcurrentCalls : UserinfoJsonResolves(c, [sub |-> "u1"])
    \/ \E c \in ConcurrentCalls : VerifyResolves(c, "accepted")
    \/ \E c \in ConcurrentCalls : VerifyRejects(c)
    \/ \E c \in ConcurrentCalls : AuthenticateEnds(c)
    \/ \E i \in ConcurrentInits : InitStart(i)
    \/ \E i \in ConcurrentInits : InitFetchRejects(i)
    \/ \E i \in ConcurrentInits, st \in Statuses : InitFetchResolves(i, st)
    \/ \E i \in ConcurrentInits : InitJsonRejects(i)
    \/ \E i \in ConcurrentInits : InitJsonResolves(i, ProviderDocument)
    \/ \E i \in ConcurrentInits : InitEnds(i)
    \/ ReadAction("r1")
    \/ ReadEnds("r1")

SpecConcurrent == InitConcurrent /\ [][NextConcurrent]_vars

\* The outcome of an invocation with the payload and the provider's and
\* verify's answers of k, had it run alone in configuration cfg.
AloneOutcome(k, cfg) ==
    IF k.payload.kind # "object" THEN Returned("none", UNDEF)
    ELSE IF k.payload.code = None /\ k.payload.refresh_token = None
    THEN Thrown("authenticate", UnsupportedPayload)
    ELSE IF Falsy(cfg.token_endpoint) THEN Thrown("token", ConfigurationMissing)
    ELSE IF ~TokenSucceeded(k) THEN Thrown("token", TokenExchangeFailed)
    ELSE IF Falsy(cfg.userinfo_endpoint)
    THEN Thrown("userinfo", ConfigurationMissing)
    ELSE IF ~UserinfoSucceeded(k) THEN Thrown("userinfo", UserInfoFetchFailed)
    ELSE k.verifyRes[1]

\* C14: against a provider with one discovery document, every init() that
\* completes stores that document and the configuration, once it is the
\* document, stays the document whichever init() finishes last; a call that
\* ends at its entry ends as it would alone in the configuration of that
\* moment, a call that sent its token request sends both requests to the
\* document's endpoints and ends as it would alone with the document; and a
\* step of one call leaves the other call as it is.
C14_ConcurrentCallsIndependent ==
    [][/\ configuration = ProviderDocument => configuration' = ProviderDocument
       /\ \A i \in DOMAIN inits :
            (inits[i].pc = "json" /\ inits'[i].outcome = Returned("init", UNDEF))
                => configuration' = ProviderDocument
       /\ \A c \in DOMAIN calls :
            LET k == calls'[c] IN
            /\ (Enters(c) /\ k.pc = "done") =>
                    k.outcome = AloneOutcome(k, configuration)
            /\ k.tokenReq # None =>
                /\ k.tokenReq[1].url = ProviderDocument.token_endpoint
                /\ TokenSucceeded(k) =>
                    /\ k.userinfoReq # None
                    /\ k.userinfoReq[1].url = ProviderDocument.userinfo_endpoint
                /\ k.pc = "done" => k.outcome = AloneOutcome(k, ProviderDocument)
            /\ \A d \in DOMAIN calls \ {c} :
                    calls'[c] # calls[c] => calls'[d] = calls[d]]_vars

C14_Witness ==
    /\ \A i \in DOMAIN inits : inits[i].outcome = Returned("init", UNDEF)
    /\ configuration = ProviderDocument
    /\ calls["a1"].pc = "done" /\ calls["a1"].outcome = Returned("verify", "accepted")
    /\ calls["a2"].pc = "done"
    /\ calls["a2"].outcome = Thrown("token", ConfigurationMissing)

\* C18: a step that changes the configuration is the step in which an
\* init() stores the decoded discovery body, and it changes no call and no
\* read of `action` (so the token exchange, the userinfo fetch, verify and
\* the redirect action leave it alone); a call that is over leaves nothing
\* behind; and two calls with the same payload, the same requests and the
\* same answers have the same outcome.
C18_OnlyDiscoveryWrites ==
    [][/\ configuration' # configuration =>
            /\ \E i \in DOMAIN inits :
                /\ inits[i].pc = "json"
                /\ inits'[i].outcome = Returned("init", UNDEF)
            /\ calls' = calls
            /\ reads' = reads
       /\ \A c \in DOMAIN calls : calls'[c].pc = "idle" => calls'[c] = IdleCall
       /\ \A c, d \in DOMAIN calls :
            LET k == calls'[c]
                l == calls'[d]
            IN  (/\ k.pc = "done" /\ l.pc = "done"
                 /\ k.payload = l.payload
                 /\ k.tokenReq = l.tokenReq /\ k.tokenRes = l.tokenRes
                 /\ k.userinfoReq = l.userinfoReq /\ k.userinfoRes = l.userinfoRes
                 /\ k.verifyRes = l.verifyRes) => k.outcome = l.outcome]_vars

C18_Witness ==
    /\ configuration = ProviderDocument
    /\ reads["r1"].outcome.kind = "return"
    /\ calls["a1"].pc = "done" /\ calls["a1"].verifyRes # None
    /\ calls["a2"].pc = "done"
    /\ calls["a2"].outcome = Thrown("token", TokenExchangeFailed)

----------------------------------------------------------------------------
(* Specification of termination: one authenticate() invocation and one
   init() invocation, where every promise the invocation awaits is settled
   in the end: each fetch() and each json() resolves or rejects, and verify
   returns or throws. *)

NextTermination ==
    \/ \E c \in Calls, p \in Payloads : Authenticate(c, p)
    \/ \E c \in Calls : TokenFetchRejects(c)
    \/ \E c \in Calls, st \in Statuses : TokenFetchResolves(c, st)
    \/ \E c \in Calls : TokenJsonRejects(c)
    \/ \E c \in Calls, body \in TokenBodies : TokenJsonResolves(c, body)
    \/ \E c \in Calls : UserinfoFetchRejects(c)
    \/ \E c \in Calls, st \in Statuses : UserinfoFetchResolves(c, st)
    \/ \E c \in Calls : UserinfoJsonRejects(c)
    \/ \E c \in Calls, body \in UserInfoBodies : UserinfoJsonResolves(c, body)
    \/ \E c \in Calls, r \in VerifyResults : VerifyResolves(c, r)
    \/ \E c \in Calls : VerifyRejects(c)
    \/ \E c \in Calls : AuthenticateEnds(c)
    \/ \E i \in Inits : InitStart(i)
    \/ \E i \in Inits : InitFetchRejects(i)
    \/ \E i \in Inits, st \in Statuses : InitFetchResolves(i, st)
    \/ \E i \in Inits : InitJsonRejects(i)
    \/ \E i \in Inits, body \in DiscoveryBodies : InitJsonResolves(i, body)
    \/ \E i \in Inits : InitEnds(i)

\* The promise that invocation c awaits is settled, either way.
Settles(c) ==
    \/ TokenFetchRejects(c)
    \/ \E st \in Statuses : TokenFetchResolves(c, st)
    \/ TokenJsonRejects(c)
    \/ \E body \in TokenBodies : TokenJsonResolves(c, body)
    \/ UserinfoFetchRejects(c)
    \/ \E st \in Statuses : UserinfoFetchResolves(c, st)
    \/ UserinfoJsonRejects(c)
    \/ \E body \in UserInfoBodies : UserinfoJsonResolves(c, body)
    \/ \E r \in VerifyResults : VerifyResolves(c, r)
    \/ VerifyRejects(c)

SpecTermination ==
    Init /\ [][NextTermination]_vars /\ \A c \in Calls : WF_vars(Settles(c))

\* The position of an invocation in the body of authenticate().
Rank(pc) ==
    CASE pc = "idle" -> 0
      [] pc = "token_fetch" -> 1
      [] pc = "token_json" -> 2
      [] pc = "userinfo_fetch" -> 3
      [] pc = "userinfo_json" -> 4
      [] pc = "verify" -> 5
      [] pc = "done" -> 6

\* What authenticate() can end with.
TerminalOutcomes ==
    {Returned("none", UNDEF)}
    \cup {Returned("verify", r) : r \in VerifyResults}
    \cup {Thrown("authenticate", UnsupportedPayload),
          Thrown("token", ConfigurationMissing),
          Thrown("userinfo", ConfigurationMissing),
          Thrown("token", TokenExchangeFailed),
          Thrown("userinfo", UserInfoFetchFailed),
          Thrown("verify", VerifyRejected)}

\* C19: when every awaited promise is settled in the end, an invocation that
\* is under way ends; it has an outcome exactly when it has ended, and that
\* outcome is undefined, verify's result or one of the errors; and every
\* step of an invocation moves it forward in the body of authenticate(),
\* never back to a step it has passed.
C19_EveryCallTerminates ==
    /\ \A c \in Calls :
        (calls[c].pc \notin {"idle", "done"}) ~> (calls[c].pc = "done")
    /\ [](\A c \in Calls :
            /\ calls[c].pc = "done" <=> calls[c].outcome # Pending
            /\ calls[c].pc = "done" => calls[c].outcome \in TerminalOutcomes)
    /\ [][\A c \in Calls :
            calls'[c] # calls[c] =>
                \/ Rank(calls'[c].pc) > Rank(calls[c].pc)
                \/ calls[c].pc = "done" /\ calls'[c] = IdleCall]_vars

C19_Witness ==
    /\ calls["a1"].pc = "done"
    /\ calls["a1"].outcome = Thrown("verify", VerifyRejected)
    /\ calls["a1"].nToken = 1 /\ calls["a1"].nUserinfo = 1
    /\ calls["a1"].payload.refresh_token # None

====
